---- MODULE Spec2Model ----
\* A model of command.Command.parse and of the Twisted bridge of tcommand.py
\* (TwistedCommand, ReactorCommand) as one sequential program running against
\* a single-threaded reactor.
\*
\* The command tree is represented by the path parse() walks in it: node 1 is
\* the root, node i+1 is the subcommand of node i named by argv, and the last
\* node is the leaf whose do() is called.  parentCommand of node i is node
\* i-1; the root has none.
EXTENDS Integers, Sequences, FiniteSets, TLC

\* ------------------------------------------------------------------ bounds
MaxDepth == 3          \* longest path from the root to the leaf
MaxInvocations == 2    \* parse() calls made on the same tree
RecursionLimit == 2    \* nested calls after which Python gives up recursing
MaxArgv == 3           \* longest argv handed to the root's parse()

\* ------------------------------------------------------------------ values
\* A Python value: t is its type, n its integer (or an exception's status),
\* x an exception's class, o an exception's output.
V(t, n, x, o) == [t |-> t, n |-> n, x |-> x, o |-> o]

NoneV == V("None", 0, "", "")

IntV(n) == V("int", n, "", "")

EmptyStr == V("str", 0, "", "")
\* A string that is not empty, which is true.
SomeStr == V("str", 1, "text", "")

DeferredV == V("Deferred", 0, "", "")

\* failure.Failure wrapping an exception of class cls (or the exception).
Failure(cls, status, output) == V("Failure", status, cls, output)

CommandExited(status, output) == Failure("CommandExited", status, output)

CommandOk(output) == Failure("CommandOk", 0, output)

CommandError(output) == Failure("CommandError", 3, output)

\* failure.check(command.CommandExited): the class or one of its subclasses.
IsCommandExited(f) == f.x \in {"CommandExited", "CommandOk", "CommandError"}

\* The attributes CommandExited.__init__ sets on an instance.
Attrs(f) == IF IsCommandExited(f) THEN {"args", "status", "output"} ELSE {"args"}

\* Python truth value.
Truthy(v) ==
    CASE v.t = "None" -> FALSE
      [] v.t = "int" -> v.n # 0
      [] v.t = "str" -> v.n # 0
      [] OTHER -> TRUE

\* The output of an exception raised without one.
NoOutput == "None"

\* What a leaf may produce: the values a do() returns or a Deferred fires
\* with, and the exceptions a do() raises or a Deferred fails with.
Values == {NoneV, IntV(0), IntV(2), EmptyStr, SomeStr}

Faults ==
    {CommandExited(2, "msg"), CommandOk(NoOutput), CommandError("msg"),
     Failure("RuntimeError", 0, "boom")}

Kinds == {"Command", "ReactorCommand", "TwistedCommand"}

\* ---------------------------------------------------------- command classes
\* A Command class: its name, its aliases, whether it has a summary or a
\* description, and subCommandClasses in the order they are declared.
Class(name, aliases, summary, subCommandClasses) ==
    [name |-> name, aliases |-> aliases, summary |-> summary,
     subCommandClasses |-> subCommandClasses]

\* Classes without subcommands, among them two with the same name, two with
\* the same alias, one whose alias is the name of others and one named help.
LeafClasses ==
    {Class("a", {}, TRUE, <<>>), Class("a", {"x"}, TRUE, <<>>),
     Class("b", {}, TRUE, <<>>), Class("b", {"x"}, TRUE, <<>>),
     Class("b", {"a"}, TRUE, <<>>), Class("help", {}, TRUE, <<>>)}

\* Classes with subcommands of their own.
GroupClasses ==
    {Class("a", {}, TRUE, <<Class("b", {"x"}, TRUE, <<>>)>>),
     Class("b", {"x"}, TRUE,
           <<Class("a", {}, TRUE, <<>>), Class("b", {"a"}, TRUE, <<>>)>>)}

\* The classes declared second under the root.
SecondClasses ==
    {Class("a", {"x"}, TRUE, <<>>), Class("b", {}, TRUE, <<>>),
     Class("b", {"a"}, TRUE, <<>>)}

\* The root classes: no, one or two subcommand classes, and with
\* subcommands a root that has neither summary nor description.
RootClasses ==
    LET lists == {<<>>}
                 \cup {<<c>> : c \in LeafClasses \cup GroupClasses}
                 \cup {<<c, d>> : c \in LeafClasses \cup GroupClasses,
                                  d \in SecondClasses}
    IN {Class("prog", {}, TRUE, l) : l \in lists}
       \cup {Class("prog", {}, FALSE, l) : l \in lists \ {<<>>}}

\* The words of an argv, and the argvs handed to parse().
Tokens == {"a", "b", "x", "help", "", "--help", "--bad"}

Argvs == UNION {[1..n -> Tokens] : n \in 0..MaxArgv}

\* The class of no tree, for a state without one.
NoClass == Class("", {}, TRUE, <<>>)

\* ------------------------------------------------------------------- state
VARIABLES
    kinds,            \* the class of each node on the path, root first
    invocation,       \* parse() calls made so far on the root
    pc,               \* where the running parse() is
    cur,              \* the node whose parse() frame is executing
    inst,             \* self of the executing TwistedCommand.installReactor
    depth,            \* nested installReactor calls in progress
    r,                \* the value being returned, or the exception raised
    dState,           \* the leaf's Deferred: "none", "pending" or "called"
    dResult,          \* its current result
    dCallbacks,       \* the callbacks added to it, in order
    fired,            \* when the Deferred fired, and with what ("sync": what do() returned)
    reactor,          \* node -> its reactor attribute
    returnValue,      \* node -> its returnValue attribute
    _reactorRunning,  \* node -> its _reactorRunning attribute
    printed,          \* node -> parser.help_printed or parser.usage_printed
    loop,             \* the reactor: running, stopping, delayed stop calls
    trace,            \* calls made during this parse(), in order
    stdout,           \* what this parse() wrote to stdout
    stderr,           \* what this parse() wrote to stderr
    outcome,          \* how the last parse() ended, and with what
    tree,             \* the root's class, with the classes below it
    built,            \* how constructing the root ended
    argv,             \* the argv the caller handed to the root's parse()
    node,             \* the node whose Command.parse runs: its path of indices
    args,             \* that parse's argv, then what parse_args left of it
    calls,            \* the methods called during this parse(), in order
    _stdout,          \* node (path of indices) -> its _stdout attribute
    _stderr,          \* node (path of indices) -> its _stderr attribute
    parser,           \* node -> the _stdout and _stderr of its parser
    passed,           \* the stdout and stderr handed to the root's constructor
    changed           \* the attributes assigned since: pairs <<what, node>>

vars ==
    <<kinds, invocation, pc, cur, inst, depth, r, dState, dResult, dCallbacks,
      fired, reactor, returnValue, _reactorRunning, printed, loop, trace, stdout,
      stderr, outcome, tree, built, argv, node, args, calls, _stdout, _stderr,
      parser, passed, changed>>

\* The variables of the token-level walk of Command.parse.
dispatchVars == <<tree, built, argv, node, args, calls>>

\* The variables of the output sinks.
sinkVars == <<_stdout, _stderr, parser, passed, changed>>

NoOutcome == [how |-> "none", v |-> NoneV]

Nodes == 1..Len(kinds)

Leaf == Len(kinds)

NoReactor == "None"

DefaultReactor == "twisted.internet.reactor"

\* A reactor of the caller's own, handed to installReactor.
CustomReactor == "custom reactor"

NotFired == [when |-> "never", o |-> NoneV]

Init ==
    /\ kinds \in UNION {[1..n -> Kinds] : n \in 1..MaxDepth}
    /\ invocation = 0
    /\ pc = "idle"
    /\ cur = 0
    /\ inst = 0
    /\ depth = 0
    /\ r = NoneV
    /\ dState = "none"
    /\ dResult = NoneV
    /\ dCallbacks = <<>>
    /\ fired = NotFired
    /\ reactor = [i \in Nodes |-> NoReactor]
    /\ returnValue = [i \in Nodes |-> NoneV]
    /\ _reactorRunning = [i \in Nodes |-> FALSE]
    /\ printed = [i \in Nodes |-> FALSE]
    /\ loop = [running |-> FALSE, stopping |-> FALSE, delayed |-> 0]
    /\ trace = <<>>
    /\ stdout = <<>>
    /\ stderr = <<>>
    /\ outcome = [how |-> "none", v |-> NoneV]
    /\ tree = NoClass
    /\ built = "ok"
    /\ argv = <<>>
    /\ node = <<>>
    /\ args = <<>>
    /\ calls = <<>>
    /\ _stdout = <<>>
    /\ _stderr = <<>>
    /\ parser = <<>>
    /\ passed = <<>>
    /\ changed = {}

\* ------------------------------------------------- descending to the leaf
\* The caller calls parse(argv) on the root, argv naming the path to the leaf.
Parse ==
    /\ pc \in {"idle", "done"}
    /\ invocation < MaxInvocations
    /\ invocation' = invocation + 1
    /\ pc' = "parse"
    /\ cur' = 1
    /\ inst' = 0
    /\ depth' = 0
    /\ r' = NoneV
    /\ dState' = "none"
    /\ dResult' = NoneV
    /\ dCallbacks' = <<>>
    /\ fired' = NotFired
    /\ trace' = <<>>
    /\ stdout' = <<>>
    /\ stderr' = <<>>
    /\ outcome' = [how |-> "none", v |-> NoneV]
    /\ UNCHANGED <<sinkVars, dispatchVars,
                   kinds, reactor, returnValue, _reactorRunning, printed, loop>>

\* Command.parse of node cur up to its routing: parse_args clears the
\* parser's flags, no option is given, handleOptions returns None; a node
\* with a subcommand named by args[0] calls that subcommand's parse, and the
\* leaf calls its own do().  ReactorCommand.parse chains up to the same code.
CommandParse ==
    /\ pc = "parse"
    /\ printed' = [printed EXCEPT ![cur] = FALSE]
    /\ IF cur < Leaf
         THEN cur' = cur + 1 /\ pc' = "parse"
         ELSE cur' = cur /\ pc' = "do"
    /\ UNCHANGED <<sinkVars, dispatchVars,
                   kinds, fired, invocation, inst, depth, r, dState, dResult,
                   dCallbacks, reactor, returnValue, _reactorRunning, loop,
                   trace, stdout, stderr, outcome>>

\* Command.parse of node cur when its argv starts with --help: the help
\* option prints the help to stdout and sets help_printed, exit() returns
\* instead of leaving, and parse returns None for "no action taken".
ParseArgsHelp ==
    /\ pc = "parse"
    /\ stdout' = Append(stdout, "help")
    /\ printed' = [printed EXCEPT ![cur] = TRUE]
    /\ r' = NoneV
    /\ pc' = "return"
    /\ UNCHANGED <<sinkVars, dispatchVars,
                   kinds, fired, invocation, cur, inst, depth, dState, dResult,
                   dCallbacks, reactor, returnValue, _reactorRunning, loop,
                   trace, stderr, outcome>>

\* Command.parse of node cur when its argv starts with an option the parser
\* does not know: error() prints the usage to stderr and raises
\* CommandError(msg), and parse_args is not called inside a try.
ParseArgsError ==
    /\ pc = "parse"
    /\ stderr' = Append(stderr, "usage")
    /\ printed' = [printed EXCEPT ![cur] = TRUE]
    /\ r' = CommandError("msg")
    /\ pc' = "except"
    /\ UNCHANGED <<sinkVars, dispatchVars,
                   kinds, fired, invocation, cur, inst, depth, dState, dResult,
                   dCallbacks, reactor, returnValue, _reactorRunning, loop,
                   trace, stdout, outcome>>

\* Command.parse of node cur whose handleOptions returns a true value, which
\* parse returns, or raises, which parse does not catch.
HandleOptions ==
    /\ pc = "parse"
    /\ printed' = [printed EXCEPT ![cur] = FALSE]
    /\ \/ r' = IntV(2) /\ pc' = "return"
       \/ \E e \in Faults : r' = e /\ pc' = "except"
    /\ UNCHANGED <<sinkVars, dispatchVars,
                   kinds, fired, invocation, cur, inst, depth, dState, dResult,
                   dCallbacks, reactor, returnValue, _reactorRunning, loop,
                   trace, stdout, stderr, outcome>>

\* Mutant of TwistedDo: do() calls doLater without installing the reactor.
TwistedDo_skipsInstall ==
    /\ pc = "do"
    /\ kinds[cur] = "TwistedCommand"
    /\ pc' = "doLater"
    /\ inst' = cur
    /\ depth' = 0
    /\ UNCHANGED <<sinkVars, dispatchVars,
                   kinds, fired, invocation, cur, r, dState, dResult, dCallbacks,
                   reactor, returnValue, _reactorRunning, printed, loop, trace,
                   stdout, stderr, outcome>>

\* TwistedCommand.do starts by calling self.installReactor().
TwistedDo ==
    /\ pc = "do"
    /\ kinds[cur] = "TwistedCommand"
    /\ pc' = "installReactor"
    /\ inst' = cur
    /\ depth' = 0
    /\ UNCHANGED <<sinkVars, dispatchVars,
                   kinds, fired, invocation, cur, r, dState, dResult, dCallbacks,
                   reactor, returnValue, _reactorRunning, printed, loop, trace,
                   stdout, stderr, outcome>>

\* Mutant of Walk: the loop goes on to the outermost ReactorCommand.
Walk_toOutermost(c) ==
    IF \E n \in 1..c : kinds[n] = "ReactorCommand"
      THEN CHOOSE n \in 1..c :
             kinds[n] = "ReactorCommand" /\ \A m \in 1..(n - 1) : kinds[m] # "ReactorCommand"
      ELSE 1

\* The node TwistedCommand.installReactor's while loop ends on, starting at
\* c: the nearest ReactorCommand at or above c, or the root when there is none.
RECURSIVE Walk(_)
Walk(c) == IF c > 1 /\ kinds[c] # "ReactorCommand" THEN Walk(c - 1) ELSE c

\* ReactorCommand.installReactor(reactor) on node c.
installReactor(c, rct) ==
    reactor' = [reactor EXCEPT ![c] = IF rct = NoReactor THEN DefaultReactor ELSE rct]

\* Between two parses the caller installs a reactor of its own in the
\* ReactorCommand that owns the leaf: installReactor(reactor) with a reactor
\* given.
InstallOwnReactor ==
    /\ pc \in {"idle", "done"}
    /\ invocation < MaxInvocations
    /\ kinds[Walk(Leaf)] = "ReactorCommand"
    /\ reactor[Walk(Leaf)] # CustomReactor
    /\ installReactor(Walk(Leaf), CustomReactor)
    /\ UNCHANGED <<sinkVars, dispatchVars,
                   kinds, fired, invocation, pc, cur, inst, depth, r, dState,
                   dResult, dCallbacks, returnValue, _reactorRunning, printed,
                   loop, trace, stdout, stderr, outcome>>

\* TwistedCommand.installReactor reaching a ReactorCommand: the reactor is
\* installed there, every nested call returns and do() goes on to doLater.
InstallInReactorCommand ==
    /\ pc = "installReactor"
    /\ kinds[Walk(inst)] = "ReactorCommand"
    /\ installReactor(Walk(inst), NoReactor)
    /\ pc' = "doLater"
    /\ depth' = 0
    /\ UNCHANGED <<sinkVars, dispatchVars,
                   kinds, fired, invocation, cur, inst, r, dState, dResult,
                   dCallbacks, returnValue, _reactorRunning, printed, loop,
                   trace, stdout, stderr, outcome>>

\* TwistedCommand.installReactor ending on a root that is a TwistedCommand:
\* c.installReactor is this same method, called on the root, where the walk
\* ends on the root again; Python stops the recursion with a RuntimeError.
InstallRecurse ==
    /\ pc = "installReactor"
    /\ kinds[Walk(inst)] = "TwistedCommand"
    /\ IF depth < RecursionLimit
         THEN /\ depth' = depth + 1
              /\ inst' = Walk(inst)
              /\ UNCHANGED <<pc, r>>
         ELSE /\ depth' = 0
              /\ inst' = inst
              /\ pc' = "except"
              /\ r' = Failure("RuntimeError", 0, "maximum recursion depth exceeded")
    /\ UNCHANGED <<sinkVars, dispatchVars,
                   kinds, fired, invocation, cur, dState, dResult, dCallbacks,
                   reactor, returnValue, _reactorRunning, printed, loop, trace,
                   stdout, stderr, outcome>>

\* TwistedCommand.installReactor ending on a root that is a plain Command:
\* Command has no installReactor method.
InstallNoMethod ==
    /\ pc = "installReactor"
    /\ kinds[Walk(inst)] = "Command"
    /\ pc' = "except"
    /\ r' = Failure("AttributeError", 0, "installReactor")
    /\ UNCHANGED <<sinkVars, dispatchVars,
                   kinds, fired, invocation, cur, inst, depth, dState, dResult,
                   dCallbacks, reactor, returnValue, _reactorRunning, printed,
                   loop, trace, stdout, stderr, outcome>>

\* d = self.doLater(args), called inline by TwistedCommand.do: doLater returns
\* a Deferred that has not fired yet, or one that already fired with a value
\* or a failure.  Command.parse finds the Deferred true and returns it.
doLater ==
    /\ pc = "doLater"
    /\ \/ dState' = "pending" /\ dResult' = NoneV /\ fired' = NotFired
       \/ \E o \in Values \cup Faults :
            /\ dState' = "called"
            /\ dResult' = o
            /\ fired' = [when |-> "inline", o |-> o]
    /\ dCallbacks' = <<>>
    /\ trace' = Append(trace, <<"doLater", cur>>)
    /\ r' = DeferredV
    /\ pc' = "return"
    /\ UNCHANGED <<sinkVars, dispatchVars,
                   kinds, invocation, cur, inst, depth, reactor, returnValue,
                   _reactorRunning, printed, loop, stdout, stderr, outcome>>

\* A synchronous leaf: Command.parse calls do(), which returns a value, and
\* returns it with a false one replaced by 0.
SyncDoReturns ==
    /\ pc = "do"
    /\ kinds[cur] # "TwistedCommand"
    /\ \E ret \in Values :
         /\ r' = IF Truthy(ret) THEN ret ELSE IntV(0)
         /\ fired' = [when |-> "sync", o |-> ret]
    /\ pc' = "return"
    /\ UNCHANGED <<sinkVars, dispatchVars,
                   kinds, invocation, cur, inst, depth, dState, dResult,
                   dCallbacks, reactor, returnValue, _reactorRunning, printed,
                   loop, trace, stdout, stderr, outcome>>

\* A synchronous leaf whose do() raises: CommandOk writes its output to
\* stdout, any other CommandExited to stderr, and the status is returned with
\* a false one replaced by 0; NotImplementedError (Command.do itself) prints
\* the usage and returns 1; any other exception leaves Command.parse.
SyncDoRaises ==
    /\ pc = "do"
    /\ kinds[cur] # "TwistedCommand"
    /\ \E e \in Faults \cup {Failure("NotImplementedError", 0, NoOutput)} :
         CASE e.x = "CommandOk" ->
                /\ stdout' = IF e.o # NoOutput THEN Append(stdout, e.o) ELSE stdout
                /\ r' = IF e.n # 0 THEN IntV(e.n) ELSE IntV(0)
                /\ pc' = "return"
                /\ UNCHANGED <<stderr, printed>>
           [] e.x \in {"CommandExited", "CommandError"} ->
                /\ stderr' = IF e.o # NoOutput THEN Append(stderr, e.o) ELSE stderr
                /\ r' = IF e.n # 0 THEN IntV(e.n) ELSE IntV(0)
                /\ pc' = "return"
                /\ UNCHANGED <<stdout, printed>>
           [] e.x = "NotImplementedError" ->
                /\ stderr' = stderr \o <<"usage", "Use --help to get a list of commands.">>
                /\ printed' = [printed EXCEPT ![cur] = TRUE]
                /\ r' = IntV(1)
                /\ pc' = "return"
                /\ UNCHANGED stdout
           [] OTHER ->
                /\ r' = e
                /\ pc' = "except"
                /\ UNCHANGED <<stdout, stderr, printed>>
    /\ UNCHANGED <<sinkVars, dispatchVars,
                   kinds, fired, invocation, cur, inst, depth, dState, dResult,
                   dCallbacks, reactor, returnValue, _reactorRunning, loop,
                   trace, outcome>>

\* --------------------------------------------------- returning and raising
\* Node cur's Command.parse returned r, and node cur returns it as it is: a
\* Command or TwistedCommand always (parse is Command.parse), a
\* ReactorCommand when r is not a Deferred.  The parent's Command.parse
\* returns what its subcommand's parse returned.
ReturnToCaller ==
    /\ pc = "return"
    /\ ~(kinds[cur] = "ReactorCommand" /\ r = DeferredV)
    /\ IF cur = 1
         THEN /\ pc' = "done"
              /\ outcome' = [how |-> "returned", v |-> r]
              /\ cur' = 0
         ELSE /\ cur' = cur - 1
              /\ UNCHANGED <<pc, outcome>>
    /\ UNCHANGED <<sinkVars, dispatchVars,
                   kinds, fired, invocation, inst, depth, r, dState, dResult,
                   dCallbacks, reactor, returnValue, _reactorRunning, printed,
                   loop, trace, stdout, stderr>>

\* An exception leaves node cur's Command.parse: a ReactorCommand writes it
\* to stderr and raises it again.
Except ==
    /\ pc = "except"
    /\ stderr' = IF kinds[cur] = "ReactorCommand"
                   THEN Append(stderr, "Exception: " \o r.x)
                   ELSE stderr
    /\ pc' = "raise"
    /\ UNCHANGED <<sinkVars, dispatchVars,
                   kinds, fired, invocation, cur, inst, depth, r, dState, dResult,
                   dCallbacks, reactor, returnValue, _reactorRunning, printed,
                   loop, trace, stdout, outcome>>

\* An exception leaves node cur's parse: it reaches the caller of the root,
\* or the parent's Command.parse, which does not catch it.
Raise ==
    /\ pc = "raise"
    /\ IF cur = 1
         THEN /\ pc' = "done"
              /\ outcome' = [how |-> "raised", v |-> r]
              /\ cur' = 0
         ELSE /\ cur' = cur - 1
              /\ pc' = "except"
              /\ UNCHANGED outcome
    /\ UNCHANGED <<sinkVars, dispatchVars,
                   kinds, fired, invocation, inst, depth, r, dState, dResult,
                   dCallbacks, reactor, returnValue, _reactorRunning, printed,
                   loop, trace, stdout, stderr>>

\* ------------------------------------------------------ the reactor's calls
\* reactor.stop() is accepted by a reactor that is running and was not asked
\* to stop yet; any other reactor raises ReactorNotRunning.
CanStop == loop.running /\ ~loop.stopping

reactorStop(l) == IF l.running /\ ~l.stopping THEN [l EXCEPT !.stopping = TRUE] ELSE l

stopEvent(l) == IF l.running /\ ~l.stopping THEN "stop" ELSE "stopNotRunning"

\* --------------------------------------------------- ReactorCommand.parse
\* Mutant of parseCbRet: None is not replaced by 0.
parseCbRet_keepsNone(ret, flags) ==
    IF Truthy(ret) THEN ret
    ELSE IF flags THEN IntV(0)
    ELSE ret

\* Mutant of parseCbRet: every false value is replaced by 0, as Command.parse
\* does.
parseCbRet_falsyToZero(ret, flags) == IF Truthy(ret) THEN ret ELSE IntV(0)

\* The value parseCb stores and returns for the value ret the Deferred fired
\* with, flags being parser.help_printed or parser.usage_printed.
parseCbRet(ret, flags) ==
    IF ret = NoneV THEN IntV(0)
    ELSE IF Truthy(ret) THEN ret
    ELSE IF flags THEN IntV(0)
    ELSE ret

\* parseCb(ret), run by the Deferred for node cur.  A reactor.stop() that
\* raises ReactorNotRunning ends parseCb after returnValue and the flag were
\* set, and the exception becomes the Deferred's result.
parseCb(ret) ==
    /\ returnValue' = [returnValue EXCEPT ![cur] = parseCbRet(ret, printed[cur])]
    /\ IF _reactorRunning[cur]
         THEN /\ _reactorRunning' = [_reactorRunning EXCEPT ![cur] = FALSE]
              /\ loop' = reactorStop(loop)
              /\ trace' = trace \o << <<"parseCb", cur>>, <<stopEvent(loop), cur>> >>
              /\ dResult' = IF CanStop
                              THEN parseCbRet(ret, printed[cur])
                              ELSE Failure("ReactorNotRunning", 0, "stop")
         ELSE /\ trace' = Append(trace, <<"parseCb", cur>>)
              /\ dResult' = parseCbRet(ret, printed[cur])
              /\ UNCHANGED <<_reactorRunning, loop>>
    /\ UNCHANGED stderr

\* Mutant of parseEb: the reactor is stopped at once as well as later.
parseEb_stopsAtOnce(failure) ==
    /\ IF IsCommandExited(failure)
         THEN /\ dResult' = Failure("AttributeError", 0, "msg")
              /\ trace' = Append(trace, <<"parseEb", cur>>)
              /\ UNCHANGED <<stderr, returnValue, loop>>
         ELSE /\ loop' = [reactorStop(loop) EXCEPT !.delayed = @ + 1]
              /\ trace' = trace \o << <<"parseEb", cur>>, <<stopEvent(loop), cur>> >>
              /\ stderr' = Append(stderr, "Failure: " \o failure.x)
              /\ returnValue' = [returnValue EXCEPT ![cur] = failure]
              /\ dResult' = NoneV
    /\ UNCHANGED _reactorRunning

\* parseEb(failure), run by the Deferred for node cur.  For a CommandExited
\* it reads failure.value.msg and failure.value.code; an attribute the
\* exception does not have raises AttributeError, which becomes the
\* Deferred's result.
parseEb(failure) ==
    /\ trace' = Append(trace, <<"parseEb", cur>>)
    /\ IF IsCommandExited(failure)
         THEN IF "msg" \notin Attrs(failure)
                THEN /\ dResult' = Failure("AttributeError", 0, "msg")
                     /\ UNCHANGED <<stderr, returnValue, loop>>
                ELSE IF "code" \notin Attrs(failure)
                       THEN /\ stderr' = Append(stderr, failure.o)
                            /\ dResult' = Failure("AttributeError", 0, "code")
                            /\ UNCHANGED <<returnValue, loop>>
                       ELSE /\ stderr' = Append(stderr, failure.o)
                            /\ returnValue' = [returnValue EXCEPT ![cur] = IntV(failure.n)]
                            /\ dResult' = IntV(failure.n)
                            /\ UNCHANGED loop
         ELSE /\ loop' = [loop EXCEPT !.delayed = @ + 1]
              /\ stderr' = Append(stderr, "Failure: " \o failure.x)
              /\ returnValue' = [returnValue EXCEPT ![cur] = failure]
              /\ dResult' = NoneV
    /\ UNCHANGED _reactorRunning

\* Mutant of ReactorParseDeferred: a ReactorCommand returns the Deferred as
\* a plain Command does.
ReactorParseDeferred_returnsIt ==
    /\ pc = "return"
    /\ kinds[cur] = "ReactorCommand"
    /\ r = DeferredV
    /\ IF cur = 1
         THEN /\ pc' = "done"
              /\ outcome' = [how |-> "returned", v |-> r]
              /\ cur' = 0
         ELSE /\ cur' = cur - 1
              /\ UNCHANGED <<pc, outcome>>
    /\ UNCHANGED <<sinkVars, dispatchVars,
                   kinds, fired, invocation, inst, depth, r, dState, dResult,
                   dCallbacks, reactor, returnValue, _reactorRunning, printed,
                   loop, trace, stdout, stderr>>

\* Mutant of ReactorParseDeferred: any node, not only a ReactorCommand, takes
\* the Deferred its Command.parse returned and starts attaching callbacks.
ReactorParseDeferred_anyNode ==
    /\ pc = "return"
    /\ r = DeferredV
    /\ IF reactor[cur] = NoReactor
         THEN installReactor(cur, NoReactor)
         ELSE UNCHANGED reactor
    /\ pc' = "addCallback"
    /\ UNCHANGED <<sinkVars, dispatchVars,
                   kinds, fired, invocation, cur, inst, depth, r, dState, dResult,
                   dCallbacks, returnValue, _reactorRunning, printed, loop,
                   trace, stdout, stderr, outcome>>

\* Node cur is a ReactorCommand whose Command.parse returned a Deferred: it
\* installs the default reactor unless it has one.
ReactorParseDeferred ==
    /\ pc = "return"
    /\ kinds[cur] = "ReactorCommand"
    /\ r = DeferredV
    /\ IF reactor[cur] = NoReactor
         THEN installReactor(cur, NoReactor)
         ELSE UNCHANGED reactor
    /\ pc' = "addCallback"
    /\ UNCHANGED <<sinkVars, dispatchVars,
                   kinds, fired, invocation, cur, inst, depth, r, dState, dResult,
                   dCallbacks, returnValue, _reactorRunning, printed, loop,
                   trace, stdout, stderr, outcome>>

\* d.addCallback(parseCb): a Deferred that already fired with a value runs
\* parseCb at once; a failure passes through.
AddCallback ==
    /\ pc = "addCallback"
    /\ dCallbacks' = Append(dCallbacks, "parseCb")
    /\ IF dState = "called" /\ dResult.t # "Failure"
         THEN parseCb(dResult)
         ELSE UNCHANGED <<returnValue, _reactorRunning, loop, trace, dResult, stderr>>
    /\ pc' = "addErrback"
    /\ UNCHANGED <<sinkVars, dispatchVars,
                   kinds, fired, invocation, cur, inst, depth, r, dState, reactor,
                   printed, stdout, outcome>>

\* d.addErrback(parseEb): a Deferred whose result is a failure runs parseEb
\* at once; a value passes through.
AddErrback ==
    /\ pc = "addErrback"
    /\ dCallbacks' = Append(dCallbacks, "parseEb")
    /\ IF dState = "called" /\ dResult.t = "Failure"
         THEN parseEb(dResult)
         ELSE UNCHANGED <<returnValue, _reactorRunning, loop, trace, dResult, stderr>>
    /\ pc' = "check"
    /\ UNCHANGED <<sinkVars, dispatchVars,
                   kinds, fired, invocation, cur, inst, depth, r, dState, reactor,
                   printed, stdout, outcome>>

\* Mutant of raiseIfFailure: a stored failure is returned, not raised.
raiseIfFailure_returns == pc' = "return" /\ r' = returnValue[cur]

\* raiseIfFailure() followed by return self.returnValue.
raiseIfFailure ==
    IF returnValue[cur].t = "Failure"
      THEN pc' = "raise" /\ r' = returnValue[cur]
      ELSE pc' = "return" /\ r' = returnValue[cur]

\* returnValue is not None before the reactor ran: the reactor is not run.
ReturnBeforeRun ==
    /\ pc = "check"
    /\ returnValue[cur] # NoneV
    /\ raiseIfFailure
    /\ UNCHANGED <<sinkVars, dispatchVars,
                   kinds, fired, invocation, cur, inst, depth, dState, dResult,
                   dCallbacks, reactor, returnValue, _reactorRunning, printed,
                   loop, trace, stdout, stderr, outcome>>

\* ReactorRun without the test of self.returnValue before it: the reactor is
\* run whatever an earlier parse stored.
ReactorRun_ignoresReturnValue ==
    /\ pc = "check"
    /\ _reactorRunning' = [_reactorRunning EXCEPT ![cur] = TRUE]
    /\ loop' = [loop EXCEPT !.running = TRUE]
    /\ trace' = Append(trace, <<"run", cur>>)
    /\ pc' = "running"
    /\ UNCHANGED <<sinkVars, dispatchVars,
                   kinds, fired, invocation, cur, inst, depth, r, dState, dResult,
                   dCallbacks, reactor, returnValue, printed, stdout, stderr,
                   outcome>>

\* self._reactorRunning = True; self.reactor.run() is entered.
ReactorRun ==
    /\ pc = "check"
    /\ returnValue[cur] = NoneV
    /\ _reactorRunning' = [_reactorRunning EXCEPT ![cur] = TRUE]
    /\ loop' = [loop EXCEPT !.running = TRUE]
    /\ trace' = Append(trace, <<"run", cur>>)
    /\ pc' = "running"
    /\ UNCHANGED <<sinkVars, dispatchVars,
                   kinds, fired, invocation, cur, inst, depth, r, dState, dResult,
                   dCallbacks, reactor, returnValue, printed, stdout, stderr,
                   outcome>>

\* Inside reactor.run(): the pending Deferred fires with a value or a
\* failure, and runs the callback added for it.
Settle ==
    /\ pc = "running"
    /\ dState = "pending"
    /\ ~loop.stopping
    /\ dState' = "called"
    /\ \E o \in Values \cup Faults :
         /\ fired' = [when |-> "running", o |-> o]
         /\ IF o.t = "Failure" THEN parseEb(o) ELSE parseCb(o)
    /\ UNCHANGED <<sinkVars, dispatchVars,
                   kinds, invocation, pc, cur, inst, depth, r, dCallbacks,
                   reactor, printed, stdout, outcome>>

\* Inside reactor.run(): a call scheduled with callLater(0, reactor.stop)
\* is made.
DelayedCall ==
    /\ pc = "running"
    /\ loop.delayed > 0
    /\ loop' = [reactorStop(loop) EXCEPT !.delayed = @ - 1]
    /\ trace' = Append(trace, <<stopEvent(loop), 0>>)
    /\ UNCHANGED <<sinkVars, dispatchVars,
                   kinds, fired, invocation, pc, cur, inst, depth, r, dState, dResult,
                   dCallbacks, reactor, returnValue, _reactorRunning, printed,
                   stdout, stderr, outcome>>

\* reactor.run() returns once the reactor was asked to stop.
RunReturns ==
    /\ pc = "running"
    /\ loop.stopping
    /\ loop' = [loop EXCEPT !.running = FALSE, !.stopping = FALSE]
    /\ trace' = Append(trace, <<"runReturned", cur>>)
    /\ pc' = "ran"
    /\ UNCHANGED <<sinkVars, dispatchVars,
                   kinds, fired, invocation, cur, inst, depth, r, dState, dResult,
                   dCallbacks, reactor, returnValue, _reactorRunning, printed,
                   stdout, stderr, outcome>>

\* After reactor.run(): raiseIfFailure(), return self.returnValue.
ReturnAfterRun ==
    /\ pc = "ran"
    /\ raiseIfFailure
    /\ UNCHANGED <<sinkVars, dispatchVars,
                   kinds, fired, invocation, cur, inst, depth, dState, dResult,
                   dCallbacks, reactor, returnValue, _reactorRunning, printed,
                   loop, trace, stdout, stderr, outcome>>

Next ==
    \/ Parse
    \/ InstallOwnReactor
    \/ CommandParse
    \/ ParseArgsHelp
    \/ ParseArgsError
    \/ HandleOptions
    \/ TwistedDo
    \/ InstallInReactorCommand
    \/ InstallRecurse
    \/ InstallNoMethod
    \/ doLater
    \/ SyncDoReturns
    \/ SyncDoRaises
    \/ ReturnToCaller
    \/ Except
    \/ Raise
    \/ ReactorParseDeferred
    \/ AddCallback
    \/ AddErrback
    \/ ReturnBeforeRun
    \/ ReactorRun
    \/ Settle
    \/ DelayedCall
    \/ RunReturns
    \/ ReturnAfterRun

Spec == Init /\ [][Next]_vars

\* ----------------------------------------------- Command.parse, by tokens
\* The tree below is one of plain Commands, whose parse is Command.parse: a
\* node returns what its subcommand's parse returned and lets through what
\* it raised, so that the end of any node's parse is the end of the root's.
bridgeVars ==
    <<kinds, invocation, cur, inst, depth, r, dState, dResult, dCallbacks, fired,
      reactor, returnValue, _reactorRunning, printed, loop, trace, _stdout,
      _stderr, parser, passed, changed>>

\* The class reached from class c along a path of indices.
RECURSIVE ClassAt(_, _)
ClassAt(c, path) ==
    IF path = <<>>
      THEN c
      ELSE ClassAt(c.subCommandClasses[Head(path)], Tail(path))

\* The paths of the nodes of the tree under class c.
RECURSIVE PathsOf(_)
PathsOf(c) ==
    {<<>>} \cup
    UNION {{<<k>> \o q : q \in PathsOf(c.subCommandClasses[k])} :
             k \in DOMAIN c.subCommandClasses}

\* The class of the node whose parse runs.
Self == ClassAt(tree, node)

\* The greatest of a set of indices.
Last(S) == CHOOSE k \in S : \A j \in S : j <= k

\* Mutant of subCommands: the first class declared with a name keeps it.
subCommands_firstWins(c) ==
    LET cs == c.subCommandClasses
    IN [t \in {cs[k].name : k \in DOMAIN cs} |->
          CHOOSE k \in DOMAIN cs :
              cs[k].name = t /\ \A j \in DOMAIN cs : cs[j].name = t => k <= j]

\* self.subCommands as __init__ fills it, name -> index of the instance: in
\* declaration order, a later instance replacing an earlier one of that name.
subCommands(c) ==
    LET cs == c.subCommandClasses
    IN [t \in {cs[k].name : k \in DOMAIN cs} |->
          Last({k \in DOMAIN cs : cs[k].name = t})]

\* Mutant of aliasedSubCommands: the aliases are not registered.
aliasedSubCommands_empty(c) == [t \in {} |-> 0]

\* self.aliasedSubCommands as __init__ fills it, in the same way.
aliasedSubCommands(c) ==
    LET cs == c.subCommandClasses
    IN [t \in UNION {cs[k].aliases : k \in DOMAIN cs} |->
          Last({k \in DOMAIN cs : t \in cs[k].aliases})]

\* Mutant of __init__: subcommands that share a name or an alias are refused.
RECURSIVE __init___refusesCollisions(_)
__init___refusesCollisions(c) ==
    LET cs == c.subCommandClasses
        words(k) == {cs[k].name} \cup cs[k].aliases
    IN IF \E k \in DOMAIN cs : __init___refusesCollisions(cs[k]) # "ok"
         THEN "AttributeError"
       ELSE IF \E j, k \in DOMAIN cs : j # k /\ words(j) \cap words(k) # {}
         THEN "ValueError"
       ELSE IF cs # <<>> /\ ~c.summary THEN "AttributeError"
       ELSE "ok"

\* How Command.__init__ ends for class c: the subcommands are constructed
\* first, and a command with subcommands needs a summary or a description.
RECURSIVE __init__(_)
__init__(c) ==
    LET cs == c.subCommandClasses
    IN IF \E k \in DOMAIN cs : __init__(cs[k]) # "ok" THEN "AttributeError"
       ELSE IF cs # <<>> /\ ~c.summary THEN "AttributeError"
       ELSE "ok"

\* CommandOptionParser.parse_args with interspersed arguments disabled: the
\* leading options are processed in order, --help printing the help and going
\* on since exit() returns, an unknown option ending in error(); what starts
\* at the first word that is no option is left as the arguments.
RECURSIVE parse_args(_)
parse_args(a) ==
    IF a = <<>> THEN [error |-> FALSE, helps |-> 0, args |-> <<>>]
    ELSE IF Head(a) = "--help"
      THEN [parse_args(Tail(a)) EXCEPT !.helps = @ + 1]
    ELSE IF Head(a) = "--bad" THEN [error |-> TRUE, helps |-> 0, args |-> <<>>]
    ELSE [error |-> FALSE, helps |-> 0, args |-> a]

\* n times the same write.
Times(n, w) == [i \in 1..n |-> w]

\* A method call as calls records it: the method, the node it is called on,
\* its arguments, and what the call did where that is an input of the walk
\* (the value a hook or a do() returned, the exception it raised).
Called(op, n, a, did) == [op |-> op, node |-> n, args |-> a, did |-> did]

DispatchInit ==
    /\ tree \in RootClasses
    /\ built = __init__(tree)
    /\ argv = <<>>
    /\ node = <<>>
    /\ args = <<>>
    /\ calls = <<>>
    /\ _stdout = <<>>
    /\ _stderr = <<>>
    /\ parser = <<>>
    /\ passed = <<>>
    /\ changed = {}
    /\ kinds = <<"Command">>
    /\ invocation = 0
    /\ pc = "idle"
    /\ cur = 0
    /\ inst = 0
    /\ depth = 0
    /\ r = NoneV
    /\ dState = "none"
    /\ dResult = NoneV
    /\ dCallbacks = <<>>
    /\ fired = NotFired
    /\ reactor = [i \in Nodes |-> NoReactor]
    /\ returnValue = [i \in Nodes |-> NoneV]
    /\ _reactorRunning = [i \in Nodes |-> FALSE]
    /\ printed = [i \in Nodes |-> FALSE]
    /\ loop = [running |-> FALSE, stopping |-> FALSE, delayed |-> 0]
    /\ trace = <<>>
    /\ stdout = <<>>
    /\ stderr = <<>>
    /\ outcome = NoOutcome

\* The caller calls parse(argv) on the root it constructed.
Call ==
    /\ pc = "idle"
    /\ built = "ok"
    /\ \E a \in Argvs :
         /\ argv' = a
         /\ args' = a
         /\ calls' = <<Called("parse", <<>>, a, NoneV)>>
    /\ node' = <<>>
    /\ pc' = "parse_args"
    /\ UNCHANGED <<bridgeVars, tree, built, stdout, stderr, outcome>>

\* The running parse returns v, and so does the root's.
Returns(v) == pc' = "done" /\ outcome' = [how |-> "returned", v |-> v]

\* The running parse raises e, and so does the root's.
Raises(e) == pc' = "done" /\ outcome' = [how |-> "raised", v |-> e]

\* parse_args(argv) meets an option it does not know: error() prints the
\* usage to stderr and raises CommandError, which nothing in parse catches.
OptionsError ==
    /\ pc = "parse_args"
    /\ parse_args(args).error
    /\ stdout' = stdout \o Times(parse_args(args).helps, <<"help", node>>)
    /\ stderr' = Append(stderr, <<"usage", node>>)
    /\ Raises(CommandError("msg"))
    /\ UNCHANGED <<bridgeVars, tree, built, argv, node, args, calls>>

\* parse_args(argv) printed the help, to stdout: parse returns None.
OptionsHelp ==
    /\ pc = "parse_args"
    /\ ~parse_args(args).error
    /\ parse_args(args).helps > 0
    /\ stdout' = stdout \o Times(parse_args(args).helps, <<"help", node>>)
    /\ Returns(NoneV)
    /\ UNCHANGED <<bridgeVars, tree, built, argv, node, args, calls,
                   stderr>>

\* parse_args(argv) printed nothing and returns the arguments.
OptionsParsed ==
    /\ pc = "parse_args"
    /\ ~parse_args(args).error
    /\ parse_args(args).helps = 0
    /\ args' = parse_args(args).args
    /\ pc' = "handleOptions"
    /\ UNCHANGED <<bridgeVars, tree, built, argv, node, calls, stdout,
                   stderr, outcome>>

\* handleOptions(options) returns None, as Command's own does.
handleOptionsNone ==
    /\ pc = "handleOptions"
    /\ calls' = Append(calls, Called("handleOptions", node, <<>>, NoneV))
    /\ pc' = "route"
    /\ UNCHANGED <<bridgeVars, tree, built, argv, node, args, stdout,
                   stderr, outcome>>

\* An overriding handleOptions returns a true value: parse returns it.
handleOptionsTrue ==
    /\ pc = "handleOptions"
    /\ calls' = Append(calls, Called("handleOptions", node, <<>>, IntV(2)))
    /\ Returns(IntV(2))
    /\ UNCHANGED <<bridgeVars, tree, built, argv, node, args, stdout,
                   stderr>>

\* An overriding handleOptions raises: parse does not catch it.
handleOptionsRaises ==
    /\ pc = "handleOptions"
    /\ calls' = Append(calls, Called("handleOptions", node, <<>>, CommandError("msg")))
    /\ Raises(CommandError("msg"))
    /\ UNCHANGED <<bridgeVars, tree, built, argv, node, args, stdout,
                   stderr>>

\* args is ['help']: a newline to stdout, outputHelp(), which prints the
\* help to stderr, and 0.
HelpSelf ==
    /\ pc = "route"
    /\ args = <<"help">>
    /\ stdout' = Append(stdout, <<"newline", node>>)
    /\ calls' = Append(calls, Called("outputHelp", node, <<>>, NoneV))
    /\ stderr' = Append(stderr, <<"help", node>>)
    /\ Returns(IntV(0))
    /\ UNCHANGED <<bridgeVars, tree, built, argv, node, args>>

\* args is ['help', ...] and the node has no subcommands: three writes to
\* stderr, and 1.
HelpNoSubCommands ==
    /\ pc = "route"
    /\ Len(args) > 1
    /\ args[1] = "help"
    /\ DOMAIN subCommands(Self) = {}
    /\ stderr' = stderr \o <<<<"text", "No subcommands defined.">>,
                             <<"usage", node>>,
                             <<"text", "Use --help to get more information about this command.">>>>
    /\ Returns(IntV(1))
    /\ UNCHANGED <<bridgeVars, tree, built, argv, node, args, calls,
                   stdout>>

\* args = [args[1], args[0]], which drops every word after the second.
Swapped(a) == <<a[2], a[1]>>

\* Mutant of Routed: a subcommand named help is looked up before the plea
\* for help is read.
Routed_lookupFirst ==
    IF /\ Len(args) > 1
       /\ args[1] = "help"
       /\ DOMAIN subCommands(Self) # {}
       /\ "help" \notin DOMAIN subCommands(Self)
      THEN Swapped(args)
      ELSE args

\* Mutant of Routed: the args are left as they came.
Routed_unswapped == args

\* args as the routing reads it: rewritten when a node with subcommands is
\* asked for help on something.
Routed ==
    IF Len(args) > 1 /\ args[1] = "help" /\ DOMAIN subCommands(Self) # {}
      THEN Swapped(args)
      ELSE args

\* Mutant of HelpAnswered: a node without subcommands does not complain
\* when asked for help on something.
HelpAnswered_onlyAlone == args = <<"help">>

\* parse has answered a plea for help by itself.
HelpAnswered ==
    /\ args # <<>>
    /\ args[1] = "help"
    /\ Len(args) = 1 \/ DOMAIN subCommands(Self) = {}

\* parse defers to the node's own do(): no args, or no subcommands.
DefersToDo ==
    /\ pc = "route"
    /\ ~HelpAnswered
    /\ Routed = <<>> \/ DOMAIN subCommands(Self) = {}

\* The exception Command.do raises.
NotImplementedError == Failure("NotImplementedError", 0, NoOutput)

\* The exceptions a do() raises: those a leaf may produce, a CommandOk with
\* an output, a CommandError without one, and NotImplementedError.
DoFaults ==
    Faults \cup {CommandOk("msg"), CommandError(NoOutput), NotImplementedError}

\* Mutant of Normal: a false status is returned as it is.
Normal_keepsFalse(ret) == ret

\* if not ret: ret = 0.
Normal(ret) == IF Truthy(ret) THEN ret ELSE IntV(0)

\* do(args) returns a value: parse returns it, a false one as 0.
DoReturns ==
    /\ DefersToDo
    /\ \E ret \in Values :
         /\ calls' = Append(calls, Called("do", node, Routed, ret))
         /\ Returns(Normal(ret))
    /\ UNCHANGED <<bridgeVars, tree, built, argv, node, args, stdout, stderr>>

\* Mutant of Sink: every CommandExited writes its output to stderr.
Sink_alwaysStderr(e) == "stderr"

\* Where parse writes the output of the CommandExited e that do() raised:
\* the except clause for CommandOk comes first.
Sink(e) == IF e.x = "CommandOk" THEN "stdout" ELSE "stderr"

\* do(args) raises: a CommandExited gives its status, after its output, if
\* it has one, went to stdout or stderr; NotImplementedError gives 1 after
\* the usage went to stderr; anything else leaves parse.
DoRaises ==
    /\ DefersToDo
    /\ \E e \in DoFaults :
         /\ calls' = Append(calls, Called("do", node, Routed, e))
         /\ CASE IsCommandExited(e) ->
                   /\ stdout' = IF e.o # NoOutput /\ Sink(e) = "stdout"
                                  THEN Append(stdout, <<"output", e.o>>)
                                  ELSE stdout
                   /\ stderr' = IF e.o # NoOutput /\ Sink(e) = "stderr"
                                  THEN Append(stderr, <<"output", e.o>>)
                                  ELSE stderr
                   /\ Returns(Normal(IntV(e.n)))
              [] e = NotImplementedError ->
                   /\ stderr' = stderr \o
                          <<<<"usage", node>>,
                            <<"text", "Use --help to get a list of commands.">>>>
                   /\ Returns(IntV(1))
                   /\ UNCHANGED stdout
              [] OTHER ->
                   /\ Raises(e)
                   /\ UNCHANGED <<stdout, stderr>>
    /\ UNCHANGED <<bridgeVars, tree, built, argv, node, args>>

\* parse goes on to the subcommands: it has args and subcommands.
DefersToSubCommand ==
    /\ pc = "route"
    /\ ~HelpAnswered
    /\ Routed # <<>>
    /\ DOMAIN subCommands(Self) # {}

\* parse(args[1:]) of the subcommand instance with index k is called.
SubCommandParse(k) ==
    /\ node' = Append(node, k)
    /\ args' = Tail(Routed)
    /\ calls' = Append(calls, Called("parse", Append(node, k), Tail(Routed), NoneV))
    /\ pc' = "parse_args"
    /\ UNCHANGED <<bridgeVars, tree, built, argv, stdout, stderr,
                   outcome>>

\* args[0] is the name of a subcommand.
SubCommand ==
    /\ DefersToSubCommand
    /\ Routed[1] \in DOMAIN subCommands(Self)
    /\ SubCommandParse(subCommands(Self)[Routed[1]])

\* args[0] is the name of no subcommand and the alias of one.
AliasedSubCommand ==
    /\ DefersToSubCommand
    /\ Routed[1] \notin DOMAIN subCommands(Self)
    /\ Routed[1] \in DOMAIN aliasedSubCommands(Self)
    /\ SubCommandParse(aliasedSubCommands(Self)[Routed[1]])

\* Mutant of UnknownCommand: the list of commands follows either message.
UnknownCommand_listsAlways ==
    /\ DefersToSubCommand
    /\ Routed[1] \notin DOMAIN subCommands(Self)
    /\ Routed[1] \notin DOMAIN aliasedSubCommands(Self)
    /\ stderr' = IF Routed[1] = ""
                   THEN stderr \o <<<<"text", "Please specify a subcommand.">>,
                                    <<"commands", node>>>>
                   ELSE stderr \o <<<<"unknown", Routed[1]>>, <<"commands", node>>>>
    /\ Returns(IntV(1))
    /\ UNCHANGED <<bridgeVars, tree, built, argv, node, args, calls, stdout>>

\* args[0] is neither: a message to stderr, after which an unknown command
\* that is not empty gets the list of commands, and 1.
UnknownCommand ==
    /\ DefersToSubCommand
    /\ Routed[1] \notin DOMAIN subCommands(Self)
    /\ Routed[1] \notin DOMAIN aliasedSubCommands(Self)
    /\ stderr' = IF Routed[1] = ""
                   THEN Append(stderr, <<"text", "Please specify a subcommand.">>)
                   ELSE stderr \o <<<<"unknown", Routed[1]>>, <<"commands", node>>>>
    /\ Returns(IntV(1))
    /\ UNCHANGED <<bridgeVars, tree, built, argv, node, args, calls,
                   stdout>>

DispatchNext ==
    \/ Call
    \/ OptionsError
    \/ OptionsHelp
    \/ OptionsParsed
    \/ handleOptionsNone
    \/ handleOptionsTrue
    \/ handleOptionsRaises
    \/ HelpSelf
    \/ HelpNoSubCommands
    \/ DoReturns
    \/ DoRaises
    \/ SubCommand
    \/ AliasedSubCommand
    \/ UnknownCommand

DispatchSpec == DispatchInit /\ [][DispatchNext]_vars

\* ------------------------------------------------------- the output sinks
\* stdout and stderr, the two attributes _getStd resolves.
What == {"stdout", "stderr"}

\* No file: the value None of _stdout and _stderr.
NoFile == "None"

\* sys.stdout and sys.stderr.
SysStd(what) == "sys." \o what

\* The file a caller hands to the root's constructor.
PassedFiles == {"fileA"}

\* The files a caller assigns to a node's attribute later.
AssignedFiles == {"fileB", "fileC"}

MaxAssigned == 2

\* The _stdout or _stderr attribute of every node.
Own(what) == IF what = "stdout" THEN _stdout ELSE _stderr

\* parentCommand of the node at path p.
parentCommand(p) == SubSeq(p, 1, Len(p) - 1)

\* Command.__init__ on the sinks: the node stores the argument, and every
\* subcommand is constructed with the same argument.
__init___std(c, file) == [p \in PathsOf(c) |-> file]

\* Command._getStd(what) on the node at path p.
RECURSIVE _getStd(_, _)
_getStd(p, what) ==
    IF Own(what)[p] # NoFile
      THEN Own(what)[p]
      ELSE IF p = <<>>
             THEN SysStd(what)
             ELSE _getStd(parentCommand(p), what)

\* The caller constructs the root of a tree, with or without a file for
\* stdout and for stderr; each node's parser is given what the node's
\* stdout and stderr resolve to at that time.
SinkInit ==
    /\ tree \in {c \in RootClasses : __init__(c) = "ok"}
    /\ built = "ok"
    /\ passed \in [What -> PassedFiles \cup {NoFile}]
    /\ _stdout = __init___std(tree, passed["stdout"])
    /\ _stderr = __init___std(tree, passed["stderr"])
    /\ parser = [p \in PathsOf(tree) |->
                   [w \in What |->
                      IF passed[w] # NoFile THEN passed[w] ELSE SysStd(w)]]
    /\ changed = {}
    /\ argv = <<>>
    /\ node = <<>>
    /\ args = <<>>
    /\ calls = <<>>
    /\ kinds = <<"Command">>
    /\ invocation = 0
    /\ pc = "idle"
    /\ cur = 0
    /\ inst = 0
    /\ depth = 0
    /\ r = NoneV
    /\ dState = "none"
    /\ dResult = NoneV
    /\ dCallbacks = <<>>
    /\ fired = NotFired
    /\ reactor = [i \in Nodes |-> NoReactor]
    /\ returnValue = [i \in Nodes |-> NoneV]
    /\ _reactorRunning = [i \in Nodes |-> FALSE]
    /\ printed = [i \in Nodes |-> FALSE]
    /\ loop = [running |-> FALSE, stopping |-> FALSE, delayed |-> 0]
    /\ trace = <<>>
    /\ stdout = <<>>
    /\ stderr = <<>>
    /\ outcome = NoOutcome

\* The caller assigns a file to the _stdout or _stderr attribute of a node.
\* The node's parser keeps the file it was given at construction.
Assign ==
    \E p \in PathsOf(tree), w \in What, file \in AssignedFiles :
        /\ <<w, p>> \in changed \/ Cardinality(changed) < MaxAssigned
        /\ Own(w)[p] # file
        /\ IF w = "stdout"
             THEN _stdout' = [_stdout EXCEPT ![p] = file] /\ UNCHANGED _stderr
             ELSE _stderr' = [_stderr EXCEPT ![p] = file] /\ UNCHANGED _stdout
        /\ changed' = changed \cup {<<w, p>>}
        /\ UNCHANGED <<parser, passed, dispatchVars, kinds, invocation, pc, cur,
                       inst, depth, r, dState, dResult, dCallbacks, fired, reactor,
                       returnValue, _reactorRunning, printed, loop, trace, stdout,
                       stderr, outcome>>

SinkNext == Assign

SinkSpec == SinkInit /\ [][SinkNext]_vars

\* ------------------------------------------------------------ observations
Range(q) == {q[i] : i \in DOMAIN q}

\* The calls of one kind made during the running parse().
Count(ev) == Cardinality({i \in DOMAIN trace : trace[i][1] = ev})

RunCalls == Count("run")

\* reactor.stop() calls, accepted by the reactor or not.
StopCalls == Count("stop") + Count("stopNotRunning")

\* The leaf is asynchronous and has a ReactorCommand above it.
HasReactorAncestor ==
    /\ kinds[Leaf] = "TwistedCommand"
    /\ \E n \in 1..(Leaf - 1) : kinds[n] = "ReactorCommand"

\* The ReactorCommand closest to the leaf among its ancestors.
NearestReactorCommand ==
    CHOOSE n \in 1..(Leaf - 1) :
        /\ kinds[n] = "ReactorCommand"
        /\ \A m \in (n + 1)..(Leaf - 1) : kinds[m] # "ReactorCommand"

\* The Deferred fired with a failure that is not a CommandExited.
UnexpectedFault == fired.o.t = "Failure" /\ ~IsCommandExited(fired.o)

\* The Deferred fired with a CommandExited, CommandOk or CommandError.
ExpectedExit == fired.o.t = "Failure" /\ IsCommandExited(fired.o)

\* ------------------------------------------------------------------ claims
\* The tree whose root is the only ReactorCommand, the asynchronous leaf two
\* levels below it.
C1_Tree == kinds = <<"ReactorCommand", "Command", "TwistedCommand">>

\* C1: on the tree ReactorCommand -> Command -> TwistedCommand, one parse()
\* calls reactor.run() at most once and reactor.stop() at most once, however
\* and whenever the leaf's Deferred settles.
C1_AtMostOneRunAndStop == C1_Tree => (RunCalls <= 1 /\ StopCalls <= 1)

C1_Witness ==
    /\ C1_Tree
    /\ pc = "done"
    /\ fired.when = "running"
    /\ RunCalls = 1
    /\ StopCalls = 1

\* C2: once the Deferred a ReactorCommand obtained has settled, parse() goes
\* on until it returns or raises: it is never left inside reactor.run() with
\* nothing that will stop the reactor.
C2_SettledParseEnds == (dState = "called" /\ pc # "done") => ENABLED Next

\* C3: when the Deferred settles with a CommandExited, CommandOk or
\* CommandError, parseEb writes its output, if any, and its status is the
\* exit code parse() returns; nothing is raised.
C3_ExpectedExitIsExitCode ==
    (ExpectedExit /\ Count("parseEb") > 0) =>
        /\ returnValue[NearestReactorCommand] = IntV(fired.o.n)
        /\ fired.o.o # NoOutput => fired.o.o \in Range(stderr) \cup Range(stdout)
        /\ pc = "done" => outcome = [how |-> "returned", v |-> IntV(fired.o.n)]

\* C4 as stated: when the Deferred settles with a failure that is not a
\* CommandExited, reactor.stop() is called exactly once, the failure is
\* written to stderr and parse() raises it.
C4_Original ==
    (pc = "done" /\ UnexpectedFault) =>
        /\ StopCalls = 1
        /\ ("Failure: " \o fired.o.x) \in Range(stderr)
        /\ outcome = [how |-> "raised", v |-> fired.o]

\* C4 as amended: the failure is written to stderr and parse() raises it,
\* never returning a value; reactor.stop() is called exactly once, on the
\* running reactor, when the Deferred settled inside reactor.run(), and is
\* not called (and the reactor not run) when it had settled before.
C4_UnexpectedFaultRaised ==
    (pc = "done" /\ UnexpectedFault) =>
        /\ ("Failure: " \o fired.o.x) \in Range(stderr)
        /\ outcome = [how |-> "raised", v |-> fired.o]
        /\ IF fired.when = "running"
             THEN RunCalls = 1 /\ Count("stop") = 1 /\ Count("stopNotRunning") = 0
             ELSE RunCalls = 0 /\ StopCalls = 0

C4_Witness ==
    /\ pc = "done"
    /\ UnexpectedFault
    /\ fired.when = "running"
    /\ outcome.how = "raised"
    /\ Count("stop") = 1

\* The calls of a parse() whose Deferred fires with a value inside run().
C5_Calls ==
    << <<"doLater", Leaf>>, <<"run", NearestReactorCommand>>,
       <<"parseCb", NearestReactorCommand>>, <<"stop", NearestReactorCommand>>,
       <<"runReturned", NearestReactorCommand>> >>

\* C5: when the Deferred fires with a value inside reactor.run(), the calls
\* are, in this order: run() entered, parseCb, reactor.stop() once, run()
\* returned; parse() then returns the value, None being returned as 0.
C5_SuccessOrder ==
    (fired.when = "running" /\ fired.o.t # "Failure") =>
        /\ IF pc = "running" THEN trace = SubSeq(C5_Calls, 1, 4) ELSE trace = C5_Calls
        /\ pc = "done" =>
             outcome = [how |-> "returned",
                        v |-> IF fired.o = NoneV THEN IntV(0) ELSE fired.o]

C5_Witness ==
    /\ pc = "done"
    /\ fired = [when |-> "running", o |-> NoneV]
    /\ trace = C5_Calls
    /\ outcome = [how |-> "returned", v |-> IntV(0)]

\* C6: whenever parse() has returned or raised, no node's _reactorRunning is
\* left True.
C6_FlagFalseAfterParse == pc = "done" => \A n \in Nodes : ~_reactorRunning[n]

\* C7: when the Deferred had already settled before parse() added its
\* callbacks, neither reactor.run() nor reactor.stop() is called, and
\* parse() returns the value or raises the failure.
C7_SettledBeforeSkipsRun ==
    fired.when = "inline" =>
        /\ RunCalls = 0
        /\ StopCalls = 0
        /\ pc = "done" =>
             outcome = IF fired.o.t = "Failure"
                         THEN [how |-> "raised", v |-> fired.o]
                         ELSE [how |-> "returned",
                               v |-> IF fired.o = NoneV THEN IntV(0) ELSE fired.o]

\* C8 as stated: doLater never starts before reactor.run() was entered.
C8_Original ==
    \A i \in DOMAIN trace :
        trace[i][1] = "doLater" => \E j \in 1..(i - 1) : trace[j][1] = "run"

\* C8 as amended: doLater is called inline by the leaf's do(), after the
\* reactor was installed in the nearest ReactorCommand and before any other
\* call of this parse(): reactor.run() is only ever entered after it.
C8_DoLaterInline ==
    /\ \A i \in DOMAIN trace :
         trace[i][1] = "doLater" =>
            /\ i = 1
            /\ trace[i][2] = Leaf
            /\ HasReactorAncestor
            /\ reactor[NearestReactorCommand] # NoReactor
    /\ RunCalls > 0 => trace[1][1] = "doLater"
    /\ pc = "doLater" => (cur = Leaf /\ trace = <<>>)

C8_Witness == pc = "running" /\ trace[1] = <<"doLater", Leaf>> /\ dState = "pending"

C10_NearestOwns ==
    HasReactorAncestor =>
        /\ \A n \in Nodes : reactor[n] # NoReactor => n = NearestReactorCommand
        /\ pc = "doLater" => reactor[NearestReactorCommand] = DefaultReactor
        /\ \A i \in DOMAIN trace :
             trace[i][1] = "run" => trace[i][2] = NearestReactorCommand
        /\ (pc = "return" /\ cur < NearestReactorCommand) => r # DeferredV

C10_Witness ==
    /\ kinds = <<"ReactorCommand", "ReactorCommand", "TwistedCommand">>
    /\ pc = "done"
    /\ <<"run", 2>> \in Range(trace)
    /\ reactor = <<NoReactor, DefaultReactor, NoReactor>>
    /\ outcome.how = "returned"

\* The steps of ReactorCommand.parse that follow a Deferred.
BridgeSteps == {"addCallback", "addErrback", "check", "running", "ran"}

\* C11: a plain Command between the owning ReactorCommand and an asynchronous
\* leaf hands the Deferred to its caller as it is: it gets no reactor, no
\* returnValue and no running flag, no doLater, run, stop, parseCb or parseEb
\* is its doing, and while it returns the leaf's Deferred nothing is attached; the
\* callbacks are attached once, parseCb then parseEb, by the nearest
\* ReactorCommand.
C11_PlainNodePassesDeferred ==
    HasReactorAncestor =>
        /\ \A n \in Nodes :
              kinds[n] = "Command" =>
                  /\ reactor[n] = NoReactor
                  /\ returnValue[n] = NoneV
                  /\ ~_reactorRunning[n]
                  /\ \A i \in DOMAIN trace : trace[i][2] # n
        /\ (pc = "return" /\ cur > NearestReactorCommand /\ dState # "none") =>
              (r = DeferredV /\ dCallbacks = <<>>)
        /\ pc \in BridgeSteps =>
              (cur = NearestReactorCommand /\ kinds[cur] = "ReactorCommand")
        /\ dCallbacks \in {<<>>, <<"parseCb">>, <<"parseCb", "parseEb">>}

\* A plain Command sat between the owner and the leaf, the Deferred went
\* through it, and the parse returned with both callbacks attached.
C11_Witness ==
    /\ C1_Tree
    /\ pc = "done"
    /\ outcome.how = "returned"
    /\ dCallbacks = <<"parseCb", "parseEb">>

\* parse() of a root that is a ReactorCommand has returned.
RootOwnerReturned ==
    /\ kinds[1] = "ReactorCommand"
    /\ pc = "done"
    /\ outcome.how = "returned"

\* The statement of C12 as written: what the root's parse returns is always
\* an integer.
C12_Original == RootOwnerReturned => outcome.v.t = "int"

\* C12: parse() of a root ReactorCommand never returns a Deferred, whatever
\* the depth of the leaf and whether it is synchronous or not.  It returns
\* an integer, or None after option parsing printed the help, or a string
\* the leaf produced: a true one from either kind of leaf, the empty one
\* only from a Deferred (the synchronous path replaces it by 0).
C12_RootOwnerNeverReturnsDeferred ==
    RootOwnerReturned =>
        /\ outcome.v # DeferredV
        /\ \/ outcome.v.t = "int"
           \/ outcome.v = NoneV /\ \E n \in Nodes : printed[n]
           \/ outcome.v = SomeStr
           \/ outcome.v = EmptyStr /\ kinds[Leaf] = "TwistedCommand"

\* A Deferred that fired with the empty string under a root ReactorCommand
\* and a leaf two levels down: parse returned the string.
C12_Witness ==
    /\ RootOwnerReturned
    /\ Len(kinds) = 3
    /\ fired.o = EmptyStr
    /\ outcome.v = EmptyStr

\* ------------------------------------------- observations of the token walk
\* The words a class answers to.
Words(c) == {c.name} \cup c.aliases

\* No two subcommands of one node share a word, anywhere under class c.
RECURSIVE DistinctSiblings(_)
DistinctSiblings(c) ==
    LET cs == c.subCommandClasses
    IN /\ \A j, k \in DOMAIN cs : j # k => Words(cs[j]) \cap Words(cs[k]) = {}
       /\ \A k \in DOMAIN cs : DistinctSiblings(cs[k])

\* The first words of toks are, one after the other, a name or an alias of
\* the nodes along path p.
NamedBy(p, toks) ==
    /\ Len(p) <= Len(toks)
    /\ \A i \in 1..Len(p) : toks[i] \in Words(ClassAt(tree, SubSeq(p, 1, i)))

\* The node at path p has no subcommands.
IsLeaf(p) == ClassAt(tree, p).subCommandClasses = <<>>

\* What follows the first n words.
After(toks, n) == SubSeq(toks, n + 1, Len(toks))

\* The do() calls of this parse, in order.
DoCalls == SelectSeq(calls, LAMBDA c : c.op = "do")

\* Every handleOptions called so far returned None.
HooksPassive ==
    \A i \in DOMAIN calls :
        calls[i].op = "handleOptions" => calls[i].did = NoneV

\* The statement of C13 as written: a path to a leaf named by the first
\* words of argv ends in one do(), on that leaf, with the words after it.
C13_Original ==
    (pc = "done" /\ DistinctSiblings(tree)) =>
        \A p \in PathsOf(tree) :
            (IsLeaf(p) /\ NamedBy(p, argv)) =>
                /\ Len(DoCalls) = 1
                /\ DoCalls[1].node = p
                /\ DoCalls[1].args = After(argv, Len(p))

\* C13: in a tree whose siblings share no name and no alias, when argv
\* starts with a name or an alias of each node along a path to a leaf, none
\* of these words being help, and what follows starts with neither help nor
\* an option, and no handleOptions returns a true value or raises, then do()
\* is called once, on that leaf, with the words that follow the path; which
\* of its name and aliases stands for a node makes no difference.
C13_PathReachesLeaf ==
    (pc = "done" /\ DistinctSiblings(tree) /\ HooksPassive) =>
        \A p \in PathsOf(tree) :
            (/\ IsLeaf(p)
             /\ NamedBy(p, argv)
             /\ \A i \in 1..Len(p) : argv[i] # "help"
             /\ After(argv, Len(p)) # <<>> =>
                    argv[Len(p) + 1] \notin {"help", "--help", "--bad"}) =>
                /\ Len(DoCalls) = 1
                /\ DoCalls[1].node = p
                /\ DoCalls[1].args = After(argv, Len(p))

\* The leaf under a subcommand of the root was reached by its alias, with
\* a word left over for its do().
C13_Witness ==
    /\ pc = "done"
    /\ DistinctSiblings(tree)
    /\ argv = <<"a", "x", "b">>
    /\ Len(DoCalls) = 1
    /\ DoCalls[1] = Called("do", <<1, 1>>, <<"b">>, IntV(2))
    /\ outcome = [how |-> "returned", v |-> IntV(2)]

\* The subcommand of class c that word w stands for: the last one declared
\* with that name, without one the last one declared with that alias, and 0
\* when there is neither.
Resolve(c, w) ==
    LET cs == c.subCommandClasses
        named == {k \in DOMAIN cs : cs[k].name = w}
        aliased == {k \in DOMAIN cs : w \in cs[k].aliases}
    IN IF named # {} THEN CHOOSE k \in named : \A j \in named : j <= k
       ELSE IF aliased # {} THEN CHOOSE k \in aliased : \A j \in aliased : j <= k
       ELSE 0

ParseCalls == SelectSeq(calls, LAMBDA c : c.op = "parse")

\* How many times write w is in the sequence of writes q.
Written(q, w) == Cardinality({i \in DOMAIN q : q[i] = w})

\* No help was written but that of the node at path p, once, to stderr.
HelpOnceFor(p) ==
    /\ Written(stderr, <<"help", p>>) = 1
    /\ \A i \in DOMAIN stderr : stderr[i][1] = "help" => stderr[i][2] = p
    /\ \A i \in DOMAIN stdout : stdout[i][1] # "help"

\* C15: with handleOptions returning None, a node whose parse is called
\* with ['help'] returns 0 after writing its own help once, calling neither
\* do() nor a subcommand; one called with ['help', X], X a name or an alias
\* of a subcommand, calls that subcommand's parse with ['help']; one called
\* with ['help', X] that has no subcommands returns 1 after writing
\* "No subcommands defined." to stderr.
C15_Help ==
    (pc = "done" /\ HooksPassive) =>
        \A i \in DOMAIN ParseCalls :
            LET f == ParseCalls[i]
                c == ClassAt(tree, f.node)
                last == i = Len(ParseCalls)
            IN /\ f.args = <<"help">> =>
                      /\ last
                      /\ DoCalls = <<>>
                      /\ outcome = [how |-> "returned", v |-> IntV(0)]
                      /\ HelpOnceFor(f.node)
               /\ (/\ Len(f.args) = 2
                   /\ f.args[1] = "help"
                   /\ Resolve(c, f.args[2]) # 0) =>
                      /\ ~last
                      /\ ParseCalls[i + 1].node =
                             Append(f.node, Resolve(c, f.args[2]))
                      /\ ParseCalls[i + 1].args = <<"help">>
               /\ (/\ Len(f.args) = 2
                   /\ f.args[1] = "help"
                   /\ c.subCommandClasses = <<>>) =>
                      /\ last
                      /\ DoCalls = <<>>
                      /\ outcome = [how |-> "returned", v |-> IntV(1)]
                      /\ stderr[1] = <<"text", "No subcommands defined.">>
                      /\ stdout = <<>>

\* help, then an alias of a subcommand: the subcommand's parse was called
\* with ['help'] and wrote the subcommand's help.
C15_Witness ==
    /\ pc = "done"
    /\ argv = <<"help", "x">>
    /\ Len(ParseCalls) = 2
    /\ ParseCalls[2].args = <<"help">>
    /\ stderr = <<<<"help", ParseCalls[2].node>>>>
    /\ outcome.v = IntV(0)

\* The last parse() called so far: the one that ends the root's.
LastParse == ParseCalls[Len(ParseCalls)]

\* C16: a usage fault of the option parser stays inside parse, which returns
\* 1 after the usage went to stderr.
C16_UsageFaultCaptured ==
    (pc = "done" /\ parse_args(LastParse.args).error) =>
        /\ outcome = [how |-> "returned", v |-> IntV(1)]
        /\ <<"usage", LastParse.node>> \in Range(stderr)

\* C17: what parse raises to its caller is never a CommandExited, a
\* CommandOk or a CommandError, and the reactor is not running then.
C17_NoExpectedExitEscapes ==
    (pc = "done" /\ outcome.how = "raised") =>
        (~IsCommandExited(outcome.v) /\ ~loop.running)

\* The do() that was called raised a CommandExited, a CommandOk or a
\* CommandError.
DoExited ==
    /\ Len(DoCalls) = 1
    /\ DoCalls[1].did.t = "Failure"
    /\ IsCommandExited(DoCalls[1].did)

\* C18: when do() raises a CommandOk, parse returns its status and its
\* output is all that is written, to stdout; when it raises another
\* CommandExited, a CommandError with its status 3 among them, parse returns
\* its status and its output is all that is written, to stderr; an output
\* of None is not written.
C18_ExitSignals ==
    (pc = "done" /\ DoExited) =>
        LET e == DoCalls[1].did
        IN /\ outcome = [how |-> "returned", v |-> IntV(e.n)]
           /\ e.x = "CommandError" => e.n = 3
           /\ stdout = IF e.x = "CommandOk" /\ e.o # NoOutput
                         THEN <<<<"output", e.o>>>>
                         ELSE <<>>
           /\ stderr = IF e.x # "CommandOk" /\ e.o # NoOutput
                         THEN <<<<"output", e.o>>>>
                         ELSE <<>>

\* A do() two levels down raised CommandOk with an output, which went to
\* stdout.
C18_Witness ==
    /\ pc = "done"
    /\ DoExited
    /\ Len(DoCalls[1].node) = 2
    /\ DoCalls[1].did = CommandOk("msg")
    /\ stdout = <<<<"output", "msg">>>>
    /\ outcome.v = IntV(0)

\* C19: parse returns 0 when the do() it called returned None, the integer
\* do() returned when that is not 0, and 1, after the usage and a hint went
\* to stderr, when do() raised NotImplementedError.
C19_SyncLeaf ==
    (pc = "done" /\ Len(DoCalls) = 1) =>
        LET d == DoCalls[1]
        IN /\ d.did = NoneV => outcome = [how |-> "returned", v |-> IntV(0)]
           /\ (d.did.t = "int" /\ d.did.n # 0) =>
                  outcome = [how |-> "returned", v |-> d.did]
           /\ d.did = NotImplementedError =>
                  /\ outcome = [how |-> "returned", v |-> IntV(1)]
                  /\ stderr[1] = <<"usage", d.node>>
                  /\ Len(stderr) = 2
                  /\ stdout = <<>>

\* A do() that returned None, after a word for it, ended parse with 0.
C19_Witness ==
    /\ pc = "done"
    /\ Len(DoCalls) = 1
    /\ DoCalls[1].did = NoneV
    /\ DoCalls[1].args = <<"b">>
    /\ outcome = [how |-> "returned", v |-> IntV(0)]

\* The frames of this parse that had a first word, after the options, to
\* look up among subcommands the node has, and found none by it.
UnknownAt(i) ==
    LET f == ParseCalls[i]
        a == parse_args(f.args)
        c == ClassAt(tree, f.node)
    IN /\ ~a.error
       /\ a.helps = 0
       /\ a.args # <<>>
       /\ c.subCommandClasses # <<>>
       /\ Resolve(c, a.args[1]) = 0

\* What parse does with the unknown word w at frame i, by C20.
UnknownReported(i, w) ==
    /\ i = Len(ParseCalls)
    /\ DoCalls = <<>>
    /\ outcome = [how |-> "returned", v |-> IntV(1)]
    /\ stdout = <<>>
    /\ stderr = IF w = ""
                  THEN <<<<"text", "Please specify a subcommand.">>>>
                  ELSE <<<<"unknown", w>>, <<"commands", ParseCalls[i].node>>>>

\* The statement of C20 as written: whatever the first word is, if it is no
\* name and no alias of a subcommand it is reported.
C20_Original ==
    (pc = "done" /\ HooksPassive) =>
        \A i \in DOMAIN ParseCalls :
            UnknownAt(i) =>
                UnknownReported(i, parse_args(ParseCalls[i].args).args[1])

\* C20: on a node with subcommands, with handleOptions returning None, a
\* first word other than help that is no name and no alias of a subcommand
\* makes parse return 1 after writing to stderr "Unknown command" with the
\* word and then the list of commands, or, the word being empty, "Please
\* specify a subcommand." alone; neither do() nor a subcommand's parse is
\* called.
C20_UnknownCommand ==
    (pc = "done" /\ HooksPassive) =>
        \A i \in DOMAIN ParseCalls :
            (UnknownAt(i) /\ parse_args(ParseCalls[i].args).args[1] # "help") =>
                UnknownReported(i, parse_args(ParseCalls[i].args).args[1])

\* An empty word under a subcommand with subcommands of its own: one
\* message, no list.
C20_Witness ==
    /\ pc = "done"
    /\ argv = <<"a", "">>
    /\ Len(ParseCalls) = 2
    /\ UnknownAt(2)
    /\ stderr = <<<<"text", "Please specify a subcommand.">>>>
    /\ outcome.v = IntV(1)

\* What parse_args left of the argv of the i-th parse called.
Remainder(i) == parse_args(ParseCalls[i].args).args

\* The i-th parse called got past its options, which printed nothing, with a
\* remainder that starts with help.
HelpLeads(i) ==
    /\ ~parse_args(ParseCalls[i].args).error
    /\ parse_args(ParseCalls[i].args).helps = 0
    /\ Remainder(i) # <<>>
    /\ Remainder(i)[1] = "help"

\* C22: at every level, with handleOptions returning None, a remainder that
\* starts with help is read as a plea for help before any subcommand is
\* looked up: help alone ends the walk at this node, which writes its own
\* help, and after help and more words the only subcommand whose parse may
\* be called is the one the second word stands for, called with ['help'];
\* a subcommand named help is called only when the second word is help too.
C22_HelpBeforeLookup ==
    (pc = "done" /\ HooksPassive) =>
        \A i \in DOMAIN ParseCalls :
            HelpLeads(i) =>
                LET f == ParseCalls[i]
                    c == ClassAt(tree, f.node)
                    a == Remainder(i)
                IN /\ DoCalls = <<>>
                   /\ Len(a) = 1 =>
                          /\ i = Len(ParseCalls)
                          /\ stderr = <<<<"help", f.node>>>>
                   /\ i < Len(ParseCalls) =>
                          /\ Len(a) > 1
                          /\ Resolve(c, a[2]) # 0
                          /\ ParseCalls[i + 1].node =
                                 Append(f.node, Resolve(c, a[2]))
                          /\ ParseCalls[i + 1].args = <<"help">>
                          /\ ClassAt(tree, ParseCalls[i + 1].node).name = "help"
                                 => a[2] = "help"

\* The root has a subcommand named help and was called with help and the
\* name of its other subcommand: that one's parse was called, with ['help'].
C22_Witness ==
    /\ pc = "done"
    /\ Len(tree.subCommandClasses) = 2
    /\ tree.subCommandClasses[1].name = "help"
    /\ tree.subCommandClasses[2].name = "b"
    /\ argv = <<"help", "b">>
    /\ Len(ParseCalls) = 2
    /\ ParseCalls[2].node = <<2>>
    /\ stderr = <<<<"help", <<2>>>>>>

\* C23: when the option parsing of the parse that ended the walk printed
\* help or usage, the root's parse returns None, and that node's
\* handleOptions and do() were not called.
C23_PrintedGivesNone ==
    (/\ pc = "done"
     /\ \/ parse_args(LastParse.args).error
        \/ parse_args(LastParse.args).helps > 0) =>
        /\ outcome = [how |-> "returned", v |-> NoneV]
        /\ DoCalls = <<>>
        /\ \A i \in DOMAIN calls :
               calls[i].op = "handleOptions" => calls[i].node # LastParse.node

\* C28: after help and two or more words on a node with subcommands, the
\* subcommand the second word stands for has its parse called with help
\* and every word that came after the second.
C28_SwapKeepsRest ==
    (pc = "done" /\ HooksPassive) =>
        \A i \in DOMAIN ParseCalls :
            LET c == ClassAt(tree, ParseCalls[i].node)
                a == Remainder(i)
            IN (/\ HelpLeads(i)
                /\ Len(a) > 1
                /\ Resolve(c, a[2]) # 0) =>
                   /\ i < Len(ParseCalls)
                   /\ ParseCalls[i + 1].node =
                          Append(ParseCalls[i].node, Resolve(c, a[2]))
                   /\ ParseCalls[i + 1].args = <<"help">> \o SubSeq(a, 3, Len(a))


\* C24: whenever a ReactorCommand enters reactor.run(), its _reactorRunning
\* flag was False just before the step that sets it, in every invocation,
\* those after an unexpected fault included.
C24_FlagClearBeforeRun ==
    [][(pc = "check" /\ pc' = "running") => ~_reactorRunning[cur]]_vars

C24_Witness ==
    /\ invocation = 2
    /\ pc = "running"
    /\ _reactorRunning[cur]
    /\ Count("run") = 1
    /\ kinds[cur] = "ReactorCommand"

\* C25: the reactor is left unrun only when the Deferred of the current
\* invocation has already fired; a result stored by an earlier invocation is
\* never what makes parse return or raise.
C25_RunSkippedOnlyWhenSettled ==
    (pc = "check" /\ returnValue[cur] # NoneV) => dState = "called"

\* C26: every reactor.stop() is made on a reactor whose run() is in
\* progress; none is made on a reactor that is not running.
C26_StopOnlyWhileRunning ==
    \A i \in DOMAIN trace : trace[i][1] # "stopNotRunning"

\* C27: once parse() has returned or raised, no reactor.stop() it scheduled
\* with callLater is still waiting in the reactor, also when the Deferred
\* had failed before reactor.run() was reached.
C27_NoStopLeftScheduled == pc = "done" => loop.delayed = 0

\* C29: a synchronous leaf's result comes back as 0 when it is None or any
\* other false value and unchanged when it is true; the result of a Deferred
\* comes back, no help or usage having been printed, as 0 when it is None
\* and unchanged otherwise, the empty string included: the two agree on None
\* and on true values and differ on the empty string.
C29_PathsNormalizeDifferently ==
    (pc = "done" /\ outcome.how = "returned") =>
        /\ fired.when = "sync" =>
             outcome.v = IF fired.o \in {NoneV, IntV(0), EmptyStr}
                           THEN IntV(0) ELSE fired.o
        /\ (/\ fired.when \in {"inline", "running"}
            /\ fired.o.t # "Failure"
            /\ HasReactorAncestor
            /\ ~printed[NearestReactorCommand]) =>
             outcome.v = IF fired.o = NoneV THEN IntV(0) ELSE fired.o

\* A Deferred that fired at once with the empty string under a root
\* ReactorCommand: parse returned the empty string, where a synchronous leaf
\* would have given 0.
C29_Witness ==
    /\ pc = "done"
    /\ kinds = <<"ReactorCommand", "TwistedCommand">>
    /\ fired = [when |-> "inline", o |-> EmptyStr]
    /\ outcome = [how |-> "returned", v |-> EmptyStr]

\* C30: a reactor of the caller's own that the owning ReactorCommand holds
\* when parse is called is the one it holds at every step of that parse;
\* dispatching the asynchronous leaf does not replace it.
C30_InstalledReactorKept ==
    [][\A n \in Nodes :
          (pc \notin {"idle", "done"} /\ reactor[n] = CustomReactor) =>
              reactor'[n] = CustomReactor]_vars

\* q is p or an ancestor of p.
AtOrAbove(q, p) == Len(q) <= Len(p) /\ SubSeq(p, 1, Len(q)) = q

\* The nodes at or above p whose attribute what was assigned after
\* construction.
AssignedAbove(p, what) ==
    {q \in PathsOf(tree) : AtOrAbove(q, p) /\ <<what, q>> \in changed}

\* The file read-through delegation gives the node at p: the file assigned
\* to the nearest node at or above it that was assigned one, and with none
\* assigned the file handed to the root's constructor, or sys.stdout or
\* sys.stderr when none was.
Delegated(p, what) ==
    IF AssignedAbove(p, what) # {}
      THEN LET q == CHOOSE a \in AssignedAbove(p, what) :
                       \A b \in AssignedAbove(p, what) : Len(b) <= Len(a)
           IN  Own(what)[q]
      ELSE IF passed[what] # NoFile THEN passed[what] ELSE SysStd(what)

\* C21: stdout and stderr are resolved by delegation and not by copy: with
\* or without files handed to the root's constructor, after a node's own
\* sink was changed every node below it that was not assigned one of its
\* own resolves to the new sink, and nodes outside its subtree resolve as
\* before.
C21_ReadThrough ==
    \A p \in PathsOf(tree), w \in What : _getStd(p, w) = Delegated(p, w)


\* C31: no node's do() is ever called with arguments whose first word is
\* 'help': a leading 'help' is answered with the help, with the complaint
\* of a node without subcommands, or swapped behind the word that names a
\* subcommand.
C31_DoNeverGetsHelpFirst ==
    \A i \in DOMAIN DoCalls :
        DoCalls[i].args = <<>> \/ DoCalls[i].args[1] # "help"

\* A leaf reached by name whose do() got the words after it, 'help' among
\* them but not in front.
C31_Witness ==
    /\ pc = "done"
    /\ argv = <<"a", "x", "help">>
    /\ Len(DoCalls) = 1
    /\ DoCalls[1].node = <<1>>
    /\ DoCalls[1].args = <<"x", "help">>
====
